---------------------------- MODULE Spec2Model ----------------------------
(***************************************************************************)
(* The controller cache's reference tracker: the useGet hook of the        *)
(* repository (src/unnamed/part_001, lines 115-198).                       *)
(*                                                                         *)
(* A consumer is one mounted use of useGet.  React runs the hook in three  *)
(* separate steps of the event loop: the render (useMemo calls Get.put),   *)
(* later the passive effect (Attach: cancel the pending eviction, count    *)
(* up), and at unmount the effect's cleanup (Detach: count down, and at    *)
(* zero schedule the eviction with setTimeout).  The callbacks of the      *)
(* timers run as further steps of the same event loop.  Every step runs to *)
(* completion, so each is one action.  A timer's delay                     *)
(* (GC_GRACE_PERIOD_MS) is abstracted: a scheduled timer may fire at any   *)
(* later step.  A mounted consumer whose tag changes runs the cleanup of   *)
(* the old tag and the effect of the new one; that is the Cleanup of one   *)
(* consumer and the Render and Effect of another.                          *)
(*                                                                         *)
(* The registry itself (Get, imported from "./cache") is not among the     *)
(* sources; GetKey, GetPutNew, GetPutThrows and GetDelete follow its       *)
(* description.                                                            *)
(***************************************************************************)
EXTENDS Integers, FiniteSets, Sequences, TLC

\* Number of requests the server handles in one behaviour.
MaxRequests == 2

\* Number of invocations of the remote procedure in one behaviour.
MaxInvocations == 3

\* Number of consumers (component instances calling useGet).
NumConsumers == 2

\* Total number of tracker entries from outside (renders of useGet, and in
\* SpecDefensive stray cleanups) in one behaviour; it caps the fresh timer
\* handles and the fresh controller instances.
MaxCalls == 4

Consumers == 1 .. NumConsumers

\* ControllerClass.name of the controller classes in use.
Classes == {"Counter"}

\* options.tag values in use; "" stands for an omitted (or empty) tag.
Suffixes == {"", "a"}

VARIABLES
    cache,           \* Get's registry: key -> controller instance
    refCounts,       \* module-level Map<string, number>
    deletionTimers,  \* module-level Map<string, Timeout>
    timers,          \* event loop: timers scheduled, not cleared, not fired
    nextTimer,       \* next fresh handle returned by setTimeout
    nextInst,        \* identity of the next constructed controller
    comp,            \* per consumer: lifecycle position, props, controller
    calls,           \* renders and stray cleanups so far
    lastOp,          \* history: the step just taken and what it found
    superseded,      \* history: timers that were outstanding for a tag when
                     \*          an Attach of that tag ran
    evicted,         \* history: the entries removed from the registry
    rpc,             \* one useRemoteProcedure hook: its isLoading state/ref
    inflight,        \* invocations of the procedure started and not settled
    started,         \* invocations of the procedure so far
    served           \* the server's requests so far, with their responses

\* The variables of one useRemoteProcedure hook.
rpcVars == <<rpc, inflight, started>>

\* The variables of the server's handlers.
serverVars == <<served>>

vars == <<cache, refCounts, deletionTimers, timers, nextTimer, nextInst,
          comp, calls, lastOp, superseded, evicted, rpcVars, serverVars>>

\* The variables of useGet and the registry.
trackerVars == <<cache, refCounts, deletionTimers, timers, nextTimer,
                 nextInst, comp, calls, lastOp, superseded, evicted>>

history == <<superseded, evicted>>

-----------------------------------------------------------------------------
\* JavaScript Map operations on a function with a finite domain.

MapHas(m, k) == k \in DOMAIN m

MapGetOr(m, k, d) == IF k \in DOMAIN m THEN m[k] ELSE d

MapSet(m, k, v) == [x \in DOMAIN m \cup {k} |-> IF x = k THEN v ELSE m[x]]

MapDelete(m, k) == [x \in DOMAIN m \ {k} |-> m[x]]

EmptyMap == [x \in {} |-> 0]

-----------------------------------------------------------------------------
\* The tag without its suffix.
Tag_NoSuffix(cls, suffix) == cls

\* const tag = tagSuffix ? `${baseTag}-${tagSuffix}` : baseTag;
\* an empty tagSuffix is falsy.
Tag(cls, suffix) == IF suffix = "" THEN cls ELSE cls \o "-" \o suffix

\* The registry's key: the type alone, or type-tag.
GetKey(cls, suffix) == IF suffix = "" THEN cls ELSE cls \o "-" \o suffix

\* Get.put on a miss with a constructor that returns: store a new instance.
GetPutNew(reg, cls, suffix, inst) == MapSet(reg, GetKey(cls, suffix), inst)

\* Get.put when the constructor throws: the entry is not stored.
GetPutThrows(reg, cls, suffix) == reg

\* Get.delete: remove the entry if present, no-op if absent.
GetDelete(reg, cls, suffix) == MapDelete(reg, GetKey(cls, suffix))

Keys == {Tag(cls, suffix) : cls \in Classes, suffix \in Suffixes}

Unmounted == [pc |-> "idle", cls |-> "", suffix |-> "", controller |-> 0]

\* What a step found before it ran.
Op(name, cls, suffix) ==
    [op      |-> name,
     cls     |-> cls,
     suffix  |-> suffix,
     live    |-> MapHas(refCounts, Tag(cls, suffix)),
     pending |-> MapHas(deletionTimers, Tag(cls, suffix)),
     stored  |-> MapHas(cache, GetKey(cls, suffix))]

-----------------------------------------------------------------------------
Init ==
    /\ cache = EmptyMap
    /\ refCounts = EmptyMap
    /\ deletionTimers = EmptyMap
    /\ timers = {}
    /\ nextTimer = 1
    /\ nextInst = 1
    /\ comp = [c \in Consumers |-> Unmounted]
    /\ calls = 0
    /\ lastOp = [op |-> "init", cls |-> "", suffix |-> "", live |-> FALSE,
                 pending |-> FALSE, stored |-> FALSE]
    /\ superseded = {}
    /\ evicted = {}
    /\ rpc = [isLoading |-> FALSE, isLoadingRef |-> FALSE, updates |-> <<>>,
              effects |-> <<>>]
    /\ inflight = {}
    /\ started = 0
    /\ served = <<>>

\* Attach without clearTimeout: the entry leaves the map, the timer stays
\* scheduled.
Attach_NoClear(tag) ==
    /\ IF MapHas(deletionTimers, tag)
         THEN /\ deletionTimers' = MapDelete(deletionTimers, tag)
              /\ UNCHANGED timers
         ELSE UNCHANGED <<timers, deletionTimers>>
    /\ refCounts' = MapSet(refCounts, tag, MapGetOr(refCounts, tag, 0) + 1)

\* The effect body (Attach): cancel the pending eviction, count up.
Attach(tag) ==
    /\ IF MapHas(deletionTimers, tag)
         THEN /\ timers' = {t \in timers : t.id # deletionTimers[tag]}
              /\ deletionTimers' = MapDelete(deletionTimers, tag)
         ELSE UNCHANGED <<timers, deletionTimers>>
    /\ refCounts' = MapSet(refCounts, tag, MapGetOr(refCounts, tag, 0) + 1)

\* The cleanup with `current < 0` for `current <= 0`: a count of zero is
\* stored.
Detach_StoresZero(cls, suffix) ==
    LET tag == Tag(cls, suffix)
        current == MapGetOr(refCounts, tag, 1) - 1
    IN  IF current < 0
          THEN /\ refCounts' = MapDelete(refCounts, tag)
               /\ timers' = timers \cup
                      {[id |-> nextTimer, cls |-> cls, suffix |-> suffix]}
               /\ deletionTimers' = MapSet(deletionTimers, tag, nextTimer)
               /\ nextTimer' = nextTimer + 1
          ELSE /\ refCounts' = MapSet(refCounts, tag, current)
               /\ UNCHANGED <<timers, deletionTimers, nextTimer>>

\* The cleanup with the setTimeout outside the `current <= 0` branch: every
\* Detach schedules an eviction.
Detach_AlwaysSchedules(cls, suffix) ==
    LET tag == Tag(cls, suffix)
        current == MapGetOr(refCounts, tag, 1) - 1
    IN  /\ refCounts' = IF current <= 0 THEN MapDelete(refCounts, tag)
                                        ELSE MapSet(refCounts, tag, current)
        /\ timers' = timers \cup
               {[id |-> nextTimer, cls |-> cls, suffix |-> suffix]}
        /\ deletionTimers' = MapSet(deletionTimers, tag, nextTimer)
        /\ nextTimer' = nextTimer + 1

\* The effect's cleanup (Detach): count down; at zero forget the count and
\* schedule the eviction.
Detach(cls, suffix) ==
    LET tag == Tag(cls, suffix)
        current == MapGetOr(refCounts, tag, 1) - 1
    IN  IF current <= 0
          THEN /\ refCounts' = MapDelete(refCounts, tag)
               /\ timers' = timers \cup
                      {[id |-> nextTimer, cls |-> cls, suffix |-> suffix]}
               /\ deletionTimers' = MapSet(deletionTimers, tag, nextTimer)
               /\ nextTimer' = nextTimer + 1
          ELSE /\ refCounts' = MapSet(refCounts, tag, current)
               /\ UNCHANGED <<timers, deletionTimers, nextTimer>>

\* The callback without its re-check of refCounts.
TimerCallback_Blind(t) ==
    /\ cache' = GetDelete(cache, t.cls, t.suffix)
    /\ deletionTimers' = MapDelete(deletionTimers, Tag(t.cls, t.suffix))

\* The callback with its re-check inverted.
TimerCallback_Inverted(t) ==
    /\ IF MapHas(refCounts, Tag(t.cls, t.suffix))
         THEN cache' = GetDelete(cache, t.cls, t.suffix)
         ELSE UNCHANGED cache
    /\ deletionTimers' = MapDelete(deletionTimers, Tag(t.cls, t.suffix))

\* The callback without its deletionTimers.delete(tag).
TimerCallback_KeepsEntry(t) ==
    /\ IF ~ MapHas(refCounts, Tag(t.cls, t.suffix))
         THEN cache' = GetDelete(cache, t.cls, t.suffix)
         ELSE UNCHANGED cache
    /\ UNCHANGED deletionTimers

\* The setTimeout callback of timer t.
TimerCallback(t) ==
    /\ IF ~ MapHas(refCounts, Tag(t.cls, t.suffix))
         THEN cache' = GetDelete(cache, t.cls, t.suffix)
         ELSE UNCHANGED cache
    /\ deletionTimers' = MapDelete(deletionTimers, Tag(t.cls, t.suffix))

-----------------------------------------------------------------------------
\* Render of consumer c: useMemo calls Get.put, which finds the entry or
\* constructs one, and the constructor returns.
Render(c, cls, suffix) ==
    /\ comp[c].pc = "idle"
    /\ calls < MaxCalls
    /\ IF MapHas(cache, GetKey(cls, suffix))
         THEN /\ comp' = [comp EXCEPT ![c] =
                    [pc |-> "rendered", cls |-> cls, suffix |-> suffix,
                     controller |-> cache[GetKey(cls, suffix)]]]
              /\ UNCHANGED <<cache, nextInst>>
         ELSE /\ cache' = GetPutNew(cache, cls, suffix, nextInst)
              /\ nextInst' = nextInst + 1
              /\ comp' = [comp EXCEPT ![c] =
                    [pc |-> "rendered", cls |-> cls, suffix |-> suffix,
                     controller |-> nextInst]]
    /\ calls' = calls + 1
    /\ lastOp' = Op("put", cls, suffix)
    /\ UNCHANGED <<rpcVars, serverVars>>
    /\ UNCHANGED <<refCounts, deletionTimers, timers, nextTimer, history>>

\* The render with the constructor's exception swallowed: the component
\* goes on without a controller.
RenderThrows_Swallowed(c, cls, suffix) ==
    /\ comp[c].pc = "idle"
    /\ calls < MaxCalls
    /\ ~ MapHas(cache, GetKey(cls, suffix))
    /\ cache' = GetPutThrows(cache, cls, suffix)
    /\ comp' = [comp EXCEPT ![c] =
          [pc |-> "rendered", cls |-> cls, suffix |-> suffix,
           controller |-> 0]]
    /\ calls' = calls + 1
    /\ lastOp' = Op("putThrows", cls, suffix)
    /\ UNCHANGED <<rpcVars, serverVars>>
    /\ UNCHANGED <<nextInst, refCounts, deletionTimers, timers, nextTimer,
                   history>>

\* Render of consumer c where Get.put must construct and the constructor
\* throws: the exception leaves useMemo and the render, so the component
\* does not mount and its effect never runs.
RenderThrows(c, cls, suffix) ==
    /\ comp[c].pc = "idle"
    /\ calls < MaxCalls
    /\ ~ MapHas(cache, GetKey(cls, suffix))
    /\ cache' = GetPutThrows(cache, cls, suffix)
    /\ calls' = calls + 1
    /\ lastOp' = Op("putThrows", cls, suffix)
    /\ UNCHANGED <<rpcVars, serverVars>>
    /\ UNCHANGED <<nextInst, comp, refCounts, deletionTimers, timers,
                   nextTimer, history>>

\* The passive effect of consumer c runs.
Effect(c) ==
    /\ comp[c].pc = "rendered"
    /\ Attach(Tag(comp[c].cls, comp[c].suffix))
    /\ comp' = [comp EXCEPT ![c].pc = "mounted"]
    /\ lastOp' = Op("attach", comp[c].cls, comp[c].suffix)
    /\ UNCHANGED <<rpcVars, serverVars>>
    /\ superseded' = superseded \cup
           {t \in timers :
               Tag(t.cls, t.suffix) = Tag(comp[c].cls, comp[c].suffix)}
    /\ UNCHANGED <<cache, nextTimer, nextInst, calls, evicted>>

\* Consumer c unmounts: the effect's cleanup runs.
Cleanup(c) ==
    /\ comp[c].pc = "mounted"
    /\ Detach(comp[c].cls, comp[c].suffix)
    /\ comp' = [comp EXCEPT ![c] = Unmounted]
    /\ lastOp' = Op("detach", comp[c].cls, comp[c].suffix)
    /\ UNCHANGED <<rpcVars, serverVars>>
    /\ UNCHANGED <<cache, nextInst, calls, history>>

\* The event loop fires timer t (one-shot: it leaves the loop).
TimerFire(t) ==
    /\ t \in timers
    /\ TimerCallback(t)
    /\ timers' = timers \ {t}
    /\ lastOp' = Op("fire", t.cls, t.suffix)
    /\ UNCHANGED <<rpcVars, serverVars>>
    /\ evicted' = evicted \cup
           {[key |-> k, inst |-> cache[k]] : k \in DOMAIN cache \ DOMAIN cache'}
    /\ UNCHANGED <<refCounts, nextTimer, nextInst, comp, calls, superseded>>

\* A cleanup that no effect preceded: what the cleanup's own `?? 1` guards
\* against.  React never does this; it is a step of SpecDefensive only.
StrayDetach(cls, suffix) ==
    /\ calls < MaxCalls
    /\ Detach(cls, suffix)
    /\ calls' = calls + 1
    /\ lastOp' = Op("strayDetach", cls, suffix)
    /\ UNCHANGED <<rpcVars, serverVars>>
    /\ UNCHANGED <<cache, nextInst, comp, history>>

\* Every handle setTimeout can return within the bounds.
AllTimers == [id : 1 .. MaxCalls, cls : Classes, suffix : Suffixes]

Next ==
    \/ \E c \in Consumers, cls \in Classes, suffix \in Suffixes :
           Render(c, cls, suffix)
    \/ \E c \in Consumers, cls \in Classes, suffix \in Suffixes :
           RenderThrows(c, cls, suffix)
    \/ \E c \in Consumers : Effect(c)
    \/ \E c \in Consumers : Cleanup(c)
    \/ \E t \in AllTimers : TimerFire(t)

\* React's pairing: every cleanup follows its own effect.
Spec == Init /\ [][Next]_vars

\* The event loop runs the callback of every timer that stays scheduled.
SpecFair == Spec /\ \A t \in AllTimers : WF_vars(TimerFire(t))

-----------------------------------------------------------------------------
(***************************************************************************)
(* useRemoteProcedure (src/unnamed/part_002, lines 59-143): the isLoading  *)
(* of the procedure object is a getter on isLoadingRef.current.  An        *)
(* invocation is the async function call: its first part runs up to the    *)
(* await of fetch, its finally block runs when the request has settled,    *)
(* whether it returned data or threw.  React applies the queued            *)
(* setIsLoading updates at the next render (in order, so the last one      *)
(* decides), and after a render that changed isLoading it runs the effect  *)
(* that copies isLoading into the ref.  The state after the hook's mount   *)
(* is the initial state.  The data and error fields are not modelled.      *)
(***************************************************************************)

\* call, up to the await: setIsLoading(true); isLoadingRef.current = true.
CallStart(r) == [r EXCEPT !.updates = <<TRUE>>, !.isLoadingRef = TRUE]

\* call, the finally block: setIsLoading(false); isLoadingRef.current =
\* false.
CallFinally(r) == [r EXCEPT !.updates = <<FALSE>>, !.isLoadingRef = FALSE]

\* useEffect(() => { isLoadingRef.current = isLoading }, [isLoading]) for
\* the pending effect of r, if any.
FlushEffects(r) ==
    IF r.effects = <<>>
      THEN r
      ELSE [r EXCEPT !.isLoadingRef = r.effects[1], !.effects = <<>>]

\* The procedure object is invoked: a new invocation starts.
RpcCall ==
    /\ started < MaxInvocations
    /\ started' = started + 1
    /\ inflight' = inflight \cup {started + 1}
    /\ rpc' = CallStart(rpc)
    /\ UNCHANGED <<trackerVars, serverVars>>

\* The request of invocation i has settled (with data or with an error).
RpcSettle(i) ==
    /\ i \in inflight
    /\ inflight' = inflight \ {i}
    /\ rpc' = CallFinally(rpc)
    /\ UNCHANGED <<started, trackerVars, serverVars>>

\* React renders the component with the queued updates; pending passive
\* effects are flushed first, and the [isLoading] effect is queued when
\* isLoading changed.
RpcRender ==
    /\ rpc.updates # <<>>
    /\ LET r == FlushEffects(rpc)
       IN  rpc' = [r EXCEPT
                      !.isLoading = rpc.updates[1],
                      !.updates = <<>>,
                      !.effects = IF rpc.updates[1] # r.isLoading
                                    THEN <<rpc.updates[1]>>
                                    ELSE <<>>]
    /\ UNCHANGED <<inflight, started, trackerVars, serverVars>>

\* React runs the pending passive effect.
RpcEffect ==
    /\ rpc.effects # <<>>
    /\ rpc' = FlushEffects(rpc)
    /\ UNCHANGED <<inflight, started, trackerVars, serverVars>>

NextRpc ==
    \/ RpcCall
    \/ \E i \in 1 .. MaxInvocations : RpcSettle(i)
    \/ RpcRender
    \/ RpcEffect

\* One useRemoteProcedure hook and the invocations of its procedure.
SpecRpc == Init /\ [][NextRpc]_vars

-----------------------------------------------------------------------------
(***************************************************************************)
(* The server's two request handlers: ARPCServer.POST (src/src/index.ts,   *)
(* lines 67-113), which routes a body {fullRoute, input} to a procedure of *)
(* the router, and the endpoint made by createEndpoint (src/src/server.ts, *)
(* lines 37-64).  A request shares no state with another one, so a request *)
(* and its response are one step.  A zod schema is the set of inputs it    *)
(* accepts; fullRoute is a sequence of tokens, "." being the separator.    *)
(***************************************************************************)

\* The JSON values sent as input (or returned as output).
Inputs == {"1", "-1", "x"}

\* schema.parse(v) returns v for an accepted v and throws a ZodError
\* otherwise.
Accepts(schema) ==
    CASE schema = "number"   -> {"1", "-1"}
      [] schema = "positive" -> {"1"}
      [] OTHER               -> {}

\* A member of a procedure object that a segment can name (seg in current):
\* a method, which is no procedure and has no member named like a route.
Member == [kind |-> "member", schema |-> "", children |-> EmptyMap]

\* A procedure: new ARPCProcedure().input(schema).proceed(fn); the schema
\* "undefined" is a procedure built without .input().
Procedure(schema) ==
    [kind |-> "procedure", schema |-> schema,
     children |-> [input |-> Member, proceed |-> Member]]

\* The router in use: { greet, raw, math: { add } }.
Routes ==
    [kind |-> "routes", schema |-> "",
     children |->
        [greet |-> Procedure("positive"),
         raw   |-> Procedure("undefined"),
         math  |-> [kind |-> "routes", schema |-> "",
                    children |-> [add |-> Procedure("number")]]]]

\* The requests' fullRoute values, each with the procedure it names
\* ("none": it names no procedure) and that procedure's schema.
RouteCases ==
    { [fullRoute |-> <<"greet">>,            target |-> "greet", schema |-> "positive"],
      [fullRoute |-> <<".", "greet", ".">>,  target |-> "greet", schema |-> "positive"],
      [fullRoute |-> <<"math", ".", "add">>, target |-> "add",   schema |-> "number"],
      [fullRoute |-> <<"raw">>,              target |-> "raw",   schema |-> "undefined"],
      [fullRoute |-> <<"math">>,             target |-> "none",  schema |-> ""],
      [fullRoute |-> <<"greet", ".", "add">>, target |-> "none", schema |-> ""],
      [fullRoute |-> <<"greet", ".", "input">>, target |-> "none", schema |-> ""],
      [fullRoute |-> <<"nope">>,             target |-> "none",  schema |-> ""],
      [fullRoute |-> <<>>,                   target |-> "none",  schema |-> ""] }

\* What the resolver does when it is invoked.
Outcomes == {"returns", "returnsInvalid", "throws", "throwsZodError"}

RECURSIVE SplitDots(_, _)
\* fullRoute.split('.'): the pieces between the separators, "" for an empty
\* piece; piece is the piece being read.
SplitDots(tokens, piece) ==
    IF tokens = <<>>
      THEN <<piece>>
      ELSE IF Head(tokens) = "."
             THEN <<piece>> \o SplitDots(Tail(tokens), "")
             ELSE SplitDots(Tail(tokens), piece \o Head(tokens))

\* .filter(Boolean): the non-empty pieces.
Segments(fullRoute) == SelectSeq(SplitDots(fullRoute, ""), LAMBDA p : p # "")

RECURSIVE Walk(_, _)
\* The for loop over the segments: the node reached, or "notFound".
Walk(current, segs) ==
    IF segs = <<>>
      THEN current
      ELSE IF current.kind \in {"routes", "procedure"}
                /\ Head(segs) \in DOMAIN current.children
             THEN Walk(current.children[Head(segs)], Tail(segs))
             ELSE [kind |-> "notFound", schema |-> "", children |-> EmptyMap]

\* A response: its status and, when the resolver was invoked, the input it
\* was given.
Response(status, resolverInput) ==
    [status |-> status, resolverInput |-> resolverInput]

\* The status of the catch block of POST for an error of the given name.
CatchStatus(name) == IF name = "ZodError" THEN 400 ELSE 500

\* POST with the validation of the input left out.
PostHandler_NoValidation(req, outcome) ==
    IF ~ req.wellFormed THEN Response(CatchStatus("SyntaxError"), <<>>)
    ELSE IF ~ req.hasRoute THEN Response(CatchStatus("ZodError"), <<>>)
    ELSE LET current == Walk(Routes, Segments(req.fullRoute))
         IN  IF current.kind # "procedure" THEN Response(404, <<>>)
             ELSE CASE outcome = "throws" ->
                         Response(CatchStatus("Error"), <<req.input>>)
                    [] outcome = "throwsZodError" ->
                         Response(CatchStatus("ZodError"), <<req.input>>)
                    [] OTHER -> Response(200, <<req.input>>)

\* ARPCServer.POST on request req, the resolver behaving as outcome.
PostHandler(req, outcome) ==
    IF ~ req.wellFormed
      THEN \* request.json() throws a SyntaxError
           Response(CatchStatus("SyntaxError"), <<>>)
    ELSE IF ~ req.hasRoute
      THEN \* bodySchema.parse throws
           Response(CatchStatus("ZodError"), <<>>)
    ELSE LET current == Walk(Routes, Segments(req.fullRoute))
         IN  IF current.kind # "procedure"
               THEN Response(404, <<>>)
             ELSE IF current.schema = "undefined"
               THEN \* proc.inputSchema is undefined: a TypeError
                    Response(CatchStatus("TypeError"), <<>>)
             ELSE IF req.input \notin Accepts(current.schema)
               THEN Response(CatchStatus("ZodError"), <<>>)
             ELSE CASE outcome = "throws" ->
                         Response(CatchStatus("Error"), <<req.input>>)
                    [] outcome = "throwsZodError" ->
                         Response(CatchStatus("ZodError"), <<req.input>>)
                    [] OTHER -> Response(200, <<req.input>>)

\* The endpoint of createEndpoint with the given input and output schemas;
\* status 0 stands for no response: request.json() is awaited outside the
\* try and the handler's promise rejects.
EndpointHandler(inSchema, outSchema, req, outcome) ==
    IF ~ req.wellFormed
      THEN Response(0, <<>>)
    ELSE IF req.input \notin Accepts(inSchema)
      THEN Response(500, <<>>)
    ELSE IF outcome \in {"throws", "throwsZodError"}
      THEN Response(500, <<req.input>>)
    ELSE IF outcome = "returnsInvalid" /\ outSchema # "any"
      THEN \* this.schemas.output.parse(output) throws
           Response(500, <<req.input>>)
    ELSE Response(200, <<req.input>>)

\* The bodies of the requests to POST.
PostRequests ==
    { [wellFormed |-> FALSE, hasRoute |-> FALSE, fullRoute |-> <<>>,
       target |-> "none", schema |-> "", input |-> ""],
      [wellFormed |-> TRUE, hasRoute |-> FALSE, fullRoute |-> <<>>,
       target |-> "none", schema |-> "", input |-> "1"] }
    \cup
    { [wellFormed |-> TRUE, hasRoute |-> TRUE, fullRoute |-> rc.fullRoute,
       target |-> rc.target, schema |-> rc.schema, input |-> v] :
          rc \in RouteCases, v \in Inputs }

\* The bodies of the requests to an endpoint.
EndpointRequests ==
    { [wellFormed |-> FALSE, input |-> ""] }
    \cup { [wellFormed |-> TRUE, input |-> v] : v \in Inputs }

\* The router's POST handles a request.
ServePost(req, outcome) ==
    /\ Len(served) < MaxRequests
    /\ served' = Append(served,
           [handler |-> "POST", wellFormed |-> req.wellFormed,
            hasSchema |-> req.target # "none" /\ req.schema # "undefined",
            schema |-> req.schema, input |-> req.input,
            resp |-> PostHandler(req, outcome)])
    /\ UNCHANGED <<trackerVars, rpcVars>>

\* An endpoint with input schema inSchema handles a request.
ServeEndpoint(inSchema, outSchema, req, outcome) ==
    /\ Len(served) < MaxRequests
    /\ served' = Append(served,
           [handler |-> "endpoint", wellFormed |-> req.wellFormed,
            hasSchema |-> TRUE,
            schema |-> inSchema, input |-> req.input,
            resp |-> EndpointHandler(inSchema, outSchema, req, outcome)])
    /\ UNCHANGED <<trackerVars, rpcVars>>

NextServer ==
    \/ \E req \in PostRequests, outcome \in Outcomes : ServePost(req, outcome)
    \/ \E inSchema \in {"number", "positive"}, outSchema \in {"any", "number"},
          req \in EndpointRequests, outcome \in Outcomes :
           ServeEndpoint(inSchema, outSchema, req, outcome)

\* The server handling requests.
SpecServer == Init /\ [][NextServer]_vars

-----------------------------------------------------------------------------
NextDefensive ==
    \/ Next
    \/ \E cls \in Classes, suffix \in Suffixes : StrayDetach(cls, suffix)

\* The tracker driven by arbitrary Attach and Detach calls.
SpecDefensive == Init /\ [][NextDefensive]_vars

-----------------------------------------------------------------------------
\* The tag the step just taken was about (the registry's key is the same
\* string).
OpTag == Tag(lastOp.cls, lastOp.suffix)

\* The outstanding timers whose callback is about tag k.
Outstanding(k) == {t \in timers : Tag(t.cls, t.suffix) = k}

-----------------------------------------------------------------------------
\* C1: the registry entry of a key is never deleted while the key has a live
\* count, and a timer callback that runs while its key has a live count
\* deletes nothing from the registry.
C1_NoEvictionWhileLive ==
    [][ /\ \A k \in Keys :
              (MapHas(cache, k) /\ ~ MapHas(cache', k))
                  => (~ MapHas(refCounts, k) /\ ~ MapHas(refCounts', k))
        /\ (lastOp'.op = "fire" /\ lastOp'.live) => cache' = cache ]_vars

\* A timer has just fired while its key was live and stored, and the entry
\* is still there.
C1_FiredWhileLive ==
    /\ lastOp.op = "fire"
    /\ lastOp.live
    /\ lastOp.stored
    /\ MapHas(cache, OpTag)
    /\ MapHas(refCounts, OpTag)

\* C2: every consumer attached to a key holds the controller the registry
\* stores for that key, so all consumers attached to one key hold the same
\* controller.
C2_AttachedShareStoredInstance ==
    \A c \in Consumers :
        comp[c].pc = "mounted" =>
            /\ MapHas(cache, GetKey(comp[c].cls, comp[c].suffix))
            /\ cache[GetKey(comp[c].cls, comp[c].suffix)] = comp[c].controller

\* C3: every key with a live count has a registry entry.
C3_CountsHaveEntries ==
    \A k \in DOMAIN refCounts : MapHas(cache, k)

\* C4: an Attach that finds a pending eviction timer cancels it, removes it
\* from deletionTimers and leaves the registry alone; a timer that was
\* outstanding when an Attach of its key ran never deletes a registry
\* entry, also after the key was fully detached again: only the timer that
\* deletionTimers records for the key evicts.
C4_SupersededTimerNeverEvicts ==
    [][ /\ (lastOp'.op = "attach" /\ lastOp'.pending) =>
              /\ ~ MapHas(deletionTimers', Tag(lastOp'.cls, lastOp'.suffix))
              /\ \A t \in timers' :
                     Tag(t.cls, t.suffix) # Tag(lastOp'.cls, lastOp'.suffix)
              /\ cache' = cache
        /\ \A k \in Keys :
              (MapHas(cache, k) /\ ~ MapHas(cache', k)) =>
                  \E t \in timers \ timers' :
                      /\ Tag(t.cls, t.suffix) = k
                      /\ t \notin superseded
                      /\ MapHas(deletionTimers, k)
                      /\ deletionTimers[k] = t.id ]_vars

\* A key was detached to zero, attached again before its timer fired, fully
\* detached again, and the second timer has just evicted the instance.
C4_LaterTimerEvicted ==
    /\ lastOp.op = "fire"
    /\ ~ lastOp.live
    /\ lastOp.stored
    /\ ~ MapHas(cache, OpTag)
    /\ \E t \in superseded : Tag(t.cls, t.suffix) = OpTag

\* The consumers whose effect is attached to tag k.
Mounted(k) ==
    {c \in Consumers :
        comp[c].pc = "mounted" /\ Tag(comp[c].cls, comp[c].suffix) = k}

\* C5: once a key's count has reached zero (its eviction timer is pending),
\* the instance is eventually deleted unless an Attach of the key comes
\* first; an entry leaves the registry only in the step in which the timer
\* scheduled by that transition to zero fires, and it does so once: that
\* step leaves no timer of the key outstanding and the entry was not
\* evicted before.
C5_EvictedOnceAfterGrace ==
    /\ \A k \in Keys :
           MapHas(deletionTimers, k)
               ~> (~ MapHas(cache, k) \/ MapHas(refCounts, k))
    /\ [][ \A k \in Keys :
              (MapHas(cache, k) /\ ~ MapHas(cache', k)) =>
                  /\ lastOp'.op = "fire"
                  /\ Tag(lastOp'.cls, lastOp'.suffix) = k
                  /\ ~ lastOp'.live
                  /\ MapHas(deletionTimers, k)
                  /\ \E t \in timers :
                         /\ t.id = deletionTimers[k]
                         /\ timers' = timers \ {t}
                  /\ \A t \in timers' : Tag(t.cls, t.suffix) # k
                  /\ [key |-> k, inst |-> cache[k]] \notin evicted
                  /\ cache' = MapDelete(cache, k) ]_vars

\* The grace timer of a key with no live count has just fired and removed
\* the key's entry.
C5_GraceTimerEvicted ==
    /\ lastOp.op = "fire"
    /\ lastOp.pending
    /\ ~ lastOp.live
    /\ lastOp.stored
    /\ ~ MapHas(cache, OpTag)

\* C6: no key ever has more than one outstanding eviction timer, and after
\* the Detach of a key's last consumer the key has no live count and
\* exactly one outstanding timer, however often the key was attached and
\* detached before.
C6_OneOutstandingTimer ==
    /\ \A k \in Keys : Cardinality(Outstanding(k)) <= 1
    /\ (lastOp.op = "detach" /\ Mounted(OpTag) = {}) =>
           /\ ~ MapHas(refCounts, OpTag)
           /\ Cardinality(Outstanding(OpTag)) = 1

\* A key was attached and detached at least twice with no eviction at all
\* (the one instance ever constructed is still stored): the earlier timer
\* was cancelled and one timer is outstanding.
C6_RepeatedAttachDetach ==
    /\ lastOp.op = "detach"
    /\ Mounted(OpTag) = {}
    /\ ~ MapHas(refCounts, OpTag)
    /\ \E t \in superseded : Tag(t.cls, t.suffix) = OpTag
    /\ evicted = {}
    /\ nextInst = 2
    /\ Cardinality(Outstanding(OpTag)) = 1

\* C7: different keys have different instances, consumers of different
\* keys hold different controllers, and a step about one key leaves the
\* count, the pending timer, the outstanding timers and the registry entry
\* of every other key as they were.
C7_KeysIsolated ==
    /\ [](/\ \A k1, k2 \in DOMAIN cache : k1 # k2 => cache[k1] # cache[k2]
          /\ \A c1, c2 \in Consumers :
                 ( /\ comp[c1].pc # "idle"
                   /\ comp[c2].pc # "idle"
                   /\ <<comp[c1].cls, comp[c1].suffix>>
                          # <<comp[c2].cls, comp[c2].suffix>> )
                     => comp[c1].controller # comp[c2].controller)
    /\ [][ \A cls \in Classes, suffix \in Suffixes :
              <<cls, suffix>> # <<lastOp'.cls, lastOp'.suffix>> =>
                  /\ MapHas(refCounts', Tag(cls, suffix))
                         = MapHas(refCounts, Tag(cls, suffix))
                  /\ MapGetOr(refCounts', Tag(cls, suffix), 0)
                         = MapGetOr(refCounts, Tag(cls, suffix), 0)
                  /\ MapHas(deletionTimers', Tag(cls, suffix))
                         = MapHas(deletionTimers, Tag(cls, suffix))
                  /\ MapGetOr(deletionTimers', Tag(cls, suffix), 0)
                         = MapGetOr(deletionTimers, Tag(cls, suffix), 0)
                  /\ {t \in timers' : t.cls = cls /\ t.suffix = suffix}
                         = {t \in timers : t.cls = cls /\ t.suffix = suffix}
                  /\ MapHas(cache', GetKey(cls, suffix))
                         = MapHas(cache, GetKey(cls, suffix))
                  /\ MapGetOr(cache', GetKey(cls, suffix), 0)
                         = MapGetOr(cache, GetKey(cls, suffix), 0) ]_vars

\* Two consumers are attached to two different keys of the same class, each
\* key with its own count and its own stored instance.
C7_TwoKeysLive ==
    \E c1, c2 \in Consumers :
        /\ comp[c1].pc = "mounted"
        /\ comp[c2].pc = "mounted"
        /\ comp[c1].cls = comp[c2].cls
        /\ comp[c1].suffix # comp[c2].suffix
        /\ MapHas(refCounts, Tag(comp[c1].cls, comp[c1].suffix))
        /\ MapHas(refCounts, Tag(comp[c2].cls, comp[c2].suffix))
        /\ cache[GetKey(comp[c1].cls, comp[c1].suffix)] = comp[c1].controller
        /\ cache[GetKey(comp[c2].cls, comp[c2].suffix)] = comp[c2].controller

\* C8: when the grace timer of a key fires and the key has no live count,
\* the registry has no entry for the key afterwards; the registry never
\* stores an evicted instance again, and a put never returns one: on a miss
\* it returns a newly constructed instance.
C8_EvictedNeverReturned ==
    /\ [](\A k \in DOMAIN cache : \A e \in evicted : cache[k] # e.inst)
    /\ [][ /\ (lastOp'.op = "fire" /\ ~ lastOp'.live) =>
                 ~ MapHas(cache', Tag(lastOp'.cls, lastOp'.suffix))
           /\ lastOp'.op = "put" =>
                 \A c \in Consumers :
                     comp'[c] # comp[c] =>
                         /\ \A e \in evicted : comp'[c].controller # e.inst
                         /\ ~ lastOp'.stored =>
                                /\ comp'[c].controller = nextInst
                                /\ cache'[GetKey(lastOp'.cls, lastOp'.suffix)]
                                       = nextInst ]_vars

\* A consumer has just mounted with a key whose earlier instance was
\* evicted, and holds another instance than the evicted one.
C8_RemountAfterEviction ==
    /\ lastOp.op = "put"
    /\ ~ lastOp.stored
    /\ \E e \in evicted :
           /\ e.key = OpTag
           /\ MapHas(cache, OpTag)
           /\ cache[OpTag] # e.inst
           /\ \E c \in Consumers :
                  /\ comp[c].pc = "rendered"
                  /\ Tag(comp[c].cls, comp[c].suffix) = OpTag
                  /\ comp[c].controller = cache[OpTag]

\* C9: a render whose put must construct and whose constructor throws
\* stores no registry entry, leaves refCounts, deletionTimers and the
\* outstanding timers unchanged and mounts nothing, so no effect runs for
\* it: every consumer that is past its render holds a controller.
C9_FailedPutLeavesNoTrace ==
    /\ [](\A c \in Consumers :
              comp[c].pc \in {"rendered", "mounted"} => comp[c].controller >= 1)
    /\ [][ lastOp'.op = "putThrows" =>
              /\ cache' = cache
              /\ refCounts' = refCounts
              /\ deletionTimers' = deletionTimers
              /\ timers' = timers
              /\ comp' = comp ]_vars

\* A put for a key without an entry has just thrown, and the key has neither
\* an entry nor a count.
C9_ConstructorThrew ==
    /\ lastOp.op = "putThrows"
    /\ ~ lastOp.stored
    /\ ~ MapHas(cache, OpTag)
    /\ ~ MapHas(refCounts, OpTag)
    /\ \E c \in Consumers : comp[c].pc = "mounted"

\* C10: a Detach of a key without a recorded count changes nothing: not
\* refCounts, not deletionTimers, not the outstanding timers, not the
\* registry.
C10_DetachWithoutCountIsNoOp ==
    [][ (lastOp'.op \in {"detach", "strayDetach"} /\ ~ lastOp'.live) =>
            /\ refCounts' = refCounts
            /\ deletionTimers' = deletionTimers
            /\ timers' = timers
            /\ cache' = cache ]_vars

\* C13: also when Detach is called without a matching Attach, a key never
\* has more than one outstanding eviction timer, and every outstanding
\* timer is the one deletionTimers records for its key.
C13_TimerReplacedNotLeaked ==
    /\ \A k \in Keys : Cardinality(Outstanding(k)) <= 1
    /\ \A t \in timers :
           /\ MapHas(deletionTimers, Tag(t.cls, t.suffix))
           /\ deletionTimers[Tag(t.cls, t.suffix)] = t.id

\* C14: every stored count is at least 1 and is the number of consumers
\* attached to the key, a key with an attached consumer has a count, and the
\* counts move as stated: Attach stores 1 for an absent key and one more for
\* a present one, Detach stores one less and removes the key when that is
\* not positive.
C14_CountsArePositive ==
    /\ [](\A k \in Keys :
              /\ MapHas(refCounts, k) =>
                     /\ refCounts[k] >= 1
                     /\ refCounts[k] = Cardinality(Mounted(k))
              /\ Mounted(k) # {} => MapHas(refCounts, k))
    /\ [][ /\ lastOp'.op = "attach" =>
                 refCounts'[Tag(lastOp'.cls, lastOp'.suffix)] =
                     IF lastOp'.live
                       THEN refCounts[Tag(lastOp'.cls, lastOp'.suffix)] + 1
                       ELSE 1
           /\ lastOp'.op = "detach" =>
                 IF refCounts[Tag(lastOp'.cls, lastOp'.suffix)] - 1 <= 0
                   THEN ~ MapHas(refCounts', Tag(lastOp'.cls, lastOp'.suffix))
                   ELSE refCounts'[Tag(lastOp'.cls, lastOp'.suffix)] =
                            refCounts[Tag(lastOp'.cls, lastOp'.suffix)] - 1
       ]_vars

\* Two consumers are attached to one key and its count is 2.
C14_TwoAttached ==
    \E k \in Keys :
        /\ Cardinality(Mounted(k)) = 2
        /\ MapHas(refCounts, k)
        /\ refCounts[k] = 2

\* C15: a Detach that leaves the key's count positive lowers that count by
\* one and changes nothing else: no timer is scheduled, deletionTimers, the
\* registry and the counts of the other keys stay as they were.  Every new
\* timer comes from a Detach that removed its key from refCounts.
C15_DetachAboveZeroOnlyCounts ==
    [][ /\ ( /\ lastOp'.op = "detach"
             /\ MapHas(refCounts', Tag(lastOp'.cls, lastOp'.suffix)) ) =>
               /\ refCounts' =
                      [refCounts EXCEPT
                          ![Tag(lastOp'.cls, lastOp'.suffix)] = @ - 1]
               /\ timers' = timers
               /\ nextTimer' = nextTimer
               /\ deletionTimers' = deletionTimers
               /\ cache' = cache
        /\ \A t \in timers' \ timers :
               /\ lastOp'.op = "detach"
               /\ Tag(t.cls, t.suffix) = Tag(lastOp'.cls, lastOp'.suffix)
               /\ MapHas(refCounts, Tag(t.cls, t.suffix))
               /\ ~ MapHas(refCounts', Tag(t.cls, t.suffix)) ]_vars

\* One of two consumers of a key has just detached: the key is still
\* counted and no timer is pending for it.
C15_DetachedAboveZero ==
    /\ lastOp.op = "detach"
    /\ lastOp.live
    /\ MapHas(refCounts, OpTag)
    /\ refCounts[OpTag] = 1
    /\ Outstanding(OpTag) = {}

\* C16: no key has a count and a pending eviction timer at once, and
\* deletionTimers has an entry for a key exactly when a timer of the key is
\* outstanding, namely the one recorded.
C16_PendingIffOutstanding ==
    \A k \in Keys :
        /\ ~ (MapHas(refCounts, k) /\ MapHas(deletionTimers, k))
        /\ MapHas(deletionTimers, k) <=> Outstanding(k) # {}
        /\ \A t \in Outstanding(k) : deletionTimers[k] = t.id

\* An Attach has just cancelled the key's pending timer (the entry and the
\* timer are gone, the key is counted) while the other key's timer is still
\* pending and outstanding.
C16_CancelledAndPending ==
    /\ lastOp.op = "attach"
    /\ lastOp.pending
    /\ MapHas(refCounts, OpTag)
    /\ ~ MapHas(deletionTimers, OpTag)
    /\ Outstanding(OpTag) = {}
    /\ \E k \in Keys :
           /\ k # OpTag
           /\ MapHas(deletionTimers, k)
           /\ Outstanding(k) # {}

\* C11: the procedure object's isLoading is true exactly when an invocation
\* is in flight.
C11_LoadingIffInFlight ==
    rpc.isLoadingRef <=> inflight # {}

\* C12: the resolver is only invoked with an input its procedure's schema
\* accepts; a request whose input the schema rejects gets no resolver call
\* and an error response: status 400 from POST, status 500 from an endpoint
\* of createEndpoint.
C12_ResolverGetsValidatedInput ==
    \A i \in 1 .. Len(served) :
        LET e == served[i]
        IN  /\ e.resp.resolverInput # <<>> =>
                   /\ e.hasSchema
                   /\ e.resp.resolverInput = <<e.input>>
                   /\ e.input \in Accepts(e.schema)
            /\ (e.wellFormed /\ e.hasSchema /\ e.input \notin Accepts(e.schema)) =>
                   /\ e.resp.resolverInput = <<>>
                   /\ e.resp.status = IF e.handler = "POST" THEN 400 ELSE 500

\* POST has answered 400 to an input its procedure rejects and an endpoint
\* has answered 500 to one it rejects, neither invoking the resolver.
C12_BothHandlersRejected ==
    \E i, j \in 1 .. Len(served) :
        /\ served[i].handler = "POST"
        /\ served[i].hasSchema
        /\ served[i].input \notin Accepts(served[i].schema)
        /\ served[i].resp = Response(400, <<>>)
        /\ served[j].handler = "endpoint"
        /\ served[j].wellFormed
        /\ served[j].input \notin Accepts(served[j].schema)
        /\ served[j].resp = Response(500, <<>>)

=============================================================================
